---- MODULE Spec2Model ----
(***************************************************************************)
(* Transaction lifecycle and fulfillment engine of the payments backend:   *)
(* Transaction.clean/save (models.py), OrderStatusService                  *)
(* (services/order_service.py), FulfillmentService                         *)
(* (services/fulfillment_service.py) and process_raw_message (tasks.py).   *)
(* Money is counted in cents (DecimalField with two decimal places).       *)
(***************************************************************************)
EXTENDS Integers, Sequences, FiniteSets, TLC

\* ------------------------------------------------------------------ bounds
\* Primary keys of the Transaction rows: one row under the lifecycle
\* specification, SlotTxnIds where transactions compete for the slot.
TxnIds == {1}
\* Amounts (cents) a Transaction row may have been created with.
AmountChoices == {200, 300}
\* Catalog: product codes with their current price, cost price and point value.
Products == {"p1", "p2"}
\* Opening stock of a product: scarce (one unit) or MaxStock units.
MaxStock == 2
StockChoices == {1, MaxStock}
\* scan_barcode's quantity argument (a non-positive one is rejected).
Quantities == {-1, 1, 2}
\* allocate_payment's amount argument (cents; a non-positive one is rejected).
AllocAmounts == {0, 100, 200, 300}
\* Free-text notes longer than this are no longer extended by the optional
\* note arguments (mark_as_processing's notes, cancel_issuance's reason).
MaxNotes == 1
\* Transactions that compete for the issuance slot.
SlotTxnIds == {1, 2}
\* Concurrent callers: request handlers and task workers.
Workers == {"w1", "w2"}
\* RawMessage rows and what their text parses to: external transaction id,
\* amount in cents (2.00 and 2.10), timestamp, parser confidence in percent
\* (0: no pattern matched).
MsgIds == {1, 2}
MsgTxIds == {"A", "B"}
MsgAmounts == {200, 210}
MsgTimestamps == {1}
MsgConfidences == {0, 90}

\* ------------------------------------------------------------------ state
VARIABLES
    txns,       \* Transaction table: sequence of rows indexed by primary key
    items,      \* TransactionLineItem rows of each transaction, in scan order
    stock,      \* Product.quantity per product
    movements,  \* InventoryMovement log, in creation order
    last,       \* the last service call and its outcome
    pc,         \* where each concurrent caller is inside its call
    raw,        \* RawMessage table
    handled,    \* messages whose process_raw_message task has run to its end
    instance,   \* the Transaction instance each caller holds in memory, if any
    emitted     \* the notifications the last step tried to send to subscribers

vars == <<txns, items, stock, movements, last, pc, raw, handled, instance, emitted>>

\* ------------------------------------------------------------------ models.py
NOT_PROCESSED == "NOT_PROCESSED"
PROCESSING == "PROCESSING"
PARTIALLY_FULFILLED == "PARTIALLY_FULFILLED"
FULFILLED == "FULFILLED"
CANCELLED == "CANCELLED"
OrderStatus == {NOT_PROCESSED, PROCESSING, PARTIALLY_FULFILLED, FULFILLED, CANCELLED}

\* A nullable column holds <<>> (NULL) or <<v>>.
None == <<>>
Some(v) == <<v>>

\* Product.current_price, Product.cost_price, Product.current_pv.
CurrentPrice(p) == IF p = "p1" THEN 100 ELSE 200
CostPrice(p) == IF p = "p1" THEN 60 ELSE 150
CurrentPv(p) == IF p = "p1" THEN 1 ELSE 3

\* Transaction.is_locked
IsLocked(row) == row.status \in {FULFILLED, CANCELLED}

\* Transaction.remaining_amount
RemainingAmount(row) ==
    IF row.status \in {FULFILLED, CANCELLED} THEN 0
    ELSE LET paid == IF row.amount_fulfilled > 0 THEN row.amount_fulfilled
                     ELSE row.amount_paid
         IN  row.amount - paid

\* valid_transitions of Transaction.can_transition_to
ValidTransitions(s) ==
    CASE s = NOT_PROCESSED -> {PROCESSING, CANCELLED}
      [] s = PROCESSING -> {PARTIALLY_FULFILLED, FULFILLED, CANCELLED}
      [] s = PARTIALLY_FULFILLED -> {FULFILLED, CANCELLED}
      [] OTHER -> {}

\* Transaction.can_transition_to
CanTransitionTo(row, new_status) ==
    IF IsLocked(row) THEN FALSE
    ELSE new_status \in ValidTransitions(row.status)

\* Meta.constraints: amount_fulfilled_cannot_exceed_payment
CheckConstraint(row) == row.amount_fulfilled <= row.amount

\* A clean that accepts every instance (sensitivity variant).
CleanNeverRaises(inst, old_instance) == FALSE

\* Transaction.clean raises ValidationError (inst: the instance being saved,
\* old_instance: the stored row with the same primary key).
CleanRaises(inst, old_instance) ==
    \/ inst.amount_paid > inst.amount
    \/ IsLocked(old_instance) /\ old_instance.status # inst.status
    \/ old_instance.status # inst.status
         /\ ~CanTransitionTo(old_instance, inst.status)

\* A save without auto-transitions (sensitivity variant).
NoAutoTransition(inst) == inst

\* The auto-locking part of Transaction.save.
AutoTransition(inst) ==
    LET a == IF inst.amount_paid >= inst.amount
             THEN IF inst.status \in {PROCESSING, PARTIALLY_FULFILLED}
                  THEN [inst EXCEPT !.status = FULFILLED,
                                    !.amount_paid = inst.amount]
                  ELSE inst
             ELSE IF inst.amount_paid > 0
                  THEN IF inst.status = PROCESSING
                       THEN [inst EXCEPT !.status = PARTIALLY_FULFILLED]
                       ELSE inst
                  ELSE inst
    IN  IF a.status = FULFILLED /\ a.amount_paid < a.amount
        THEN [a EXCEPT !.amount_paid = a.amount]
        ELSE a

\* Transaction.save of an existing row: full_clean (clean and the model's
\* constraints) unless skip_validation, the auto-transitions, then the write,
\* which the storage-level check constraint may refuse.
\* The result is [ok, row]: row is what the table holds afterwards.
Save(inst, old_instance, skip_validation) ==
    IF ~skip_validation /\ (CleanRaises(inst, old_instance) \/ ~CheckConstraint(inst))
    THEN [ok |-> FALSE, row |-> old_instance]
    ELSE LET r == AutoTransition(inst)
         IN  IF CheckConstraint(r) THEN [ok |-> TRUE, row |-> r]
             ELSE [ok |-> FALSE, row |-> old_instance]

\* Transaction.objects.create as process_raw_message and the tests call it:
\* the column defaults, then save (a new row has no old instance to compare).
NewTransaction(tx_id, amount, unique_hash) ==
    AutoTransition(
        [tx_id |-> tx_id, amount |-> amount, amount_expected |-> Some(amount),
         amount_paid |-> 0, amount_fulfilled |-> 0,
         total_cost |-> None, total_pv |-> None,
         is_in_issuance |-> FALSE, status |-> NOT_PROCESSED,
         notes |-> <<>>, unique_hash |-> unique_hash])

\* TransactionLineItem.save: the line totals are recomputed from the frozen
\* unit values.
LineItem(t, p, quantity) ==
    [transaction |-> t, product |-> p, quantity |-> quantity,
     scanned_price |-> CurrentPrice(p), scanned_pv |-> CurrentPv(p),
     line_total |-> quantity * CurrentPrice(p),
     line_cost |-> quantity * CostPrice(p),
     line_pv |-> quantity * CurrentPv(p)]

\* TransactionLineItem.objects.filter(transaction=txn)
ItemsOf(its, t) == its[t]

RECURSIVE SumLineTotal(_)
SumLineTotal(its) ==
    IF its = <<>> THEN 0 ELSE Head(its).line_total + SumLineTotal(Tail(its))

RECURSIVE SumLineCost(_)
SumLineCost(its) ==
    IF its = <<>> THEN 0 ELSE Head(its).line_cost + SumLineCost(Tail(its))

RECURSIVE SumLinePv(_)
SumLinePv(its) ==
    IF its = <<>> THEN 0 ELSE Head(its).line_pv + SumLinePv(Tail(its))

\* ------------------------------------------------------------------ bookkeeping
\* One service call: the operation, its arguments and the error it raised
\* ("" when it returned normally).
Call(op, t, err) == [op |-> op, t |-> t, err |-> err]

NoCall == Call("init", 0, "")

\* A caller that is not inside a call.
Idle == [step |-> "idle", arg |-> 0]

\* The optional note arguments a caller may pass for a row.
NoteChoices(row) == IF Len(row.notes) < MaxNotes THEN {"", "note"} ELSE {""}

\* A state of the store as one operation leaves it, with the error raised.
Outcome(err, tab, its, stk, movs) ==
    [err |-> err, txns |-> tab, items |-> its, stock |-> stk, movements |-> movs]

\* A change notification for transaction t.
Notification(type, t) == [type |-> type, transaction |-> t]

\* OrderStatusService._broadcast_transaction_updated, called by the four
\* OrderStatusService operations once their save has returned; the
\* FulfillmentService operations send nothing.
UpdatedBy(call) ==
    IF /\ call.op \in {"mark_as_processing", "allocate_payment",
                       "mark_as_fulfilled", "cancel_transaction"}
       /\ call.err = ""
    THEN <<Notification("transaction.updated", call.t)>>
    ELSE <<>>

\* An operation that raises inside transaction.atomic() is rolled back.
Raise(err) == Outcome(err, txns, items, stock, movements)

\* ------------------------------------------------------------------ fulfillment_service.py
\* The transactions other than t that hold the issuance slot.
ExistingIssuance(tab, t) ==
    {u \in DOMAIN tab : tab[u].is_in_issuance /\ u # t}

\* activate_issuance after the slot check: the row is locked and read,
\* validated, flagged and saved.
ActivateLocked(tab, t) ==
    LET txn == tab[t]
        inst == [txn EXCEPT !.is_in_issuance = TRUE,
                            !.status = IF txn.status = NOT_PROCESSED
                                       THEN PROCESSING ELSE txn.status]
        saved == Save(inst, txn, FALSE)
    IN  IF IsLocked(txn) THEN [err |-> "TransactionLocked", txns |-> tab]
        ELSE IF txn.status \notin {NOT_PROCESSED, PROCESSING, PARTIALLY_FULFILLED}
        THEN [err |-> "InvalidStatus", txns |-> tab]
        ELSE IF ~saved.ok THEN [err |-> "ValidationError", txns |-> tab]
        ELSE [err |-> "", txns |-> [tab EXCEPT ![t] = saved.row]]

\* FulfillmentService.activate_issuance, run without interleaving.
ActivateOutcome(t) ==
    IF ExistingIssuance(txns, t) # {}
    THEN Raise("IssuanceAlreadyActive")
    ELSE LET r == ActivateLocked(txns, t)
         IN  Outcome(r.err, r.txns, items, stock, movements)

\* A check that takes every transaction as in issuance (sensitivity variant).
AlwaysInIssuance(row) == FALSE

\* scan_barcode, complete_issuance, cancel_issuance: the transaction was not
\* activated.
NotInIssuance(row) == ~row.is_in_issuance

\* A scan_barcode that refuses no quantity (sensitivity variant).
QuantityNeverRefused(quantity) == FALSE

\* scan_barcode: quantity <= 0 is refused.
QuantityRefused(quantity) == quantity <= 0

\* A status rule that needs amount_fulfilled to pass amount (sensitivity
\* variant).
StatusForOverFulfillment(row) ==
    IF row.amount_fulfilled > row.amount THEN FULFILLED
    ELSE IF row.amount_fulfilled > 0 THEN PARTIALLY_FULFILLED
    ELSE row.status

\* scan_barcode, complete_issuance: the status set from amount_fulfilled.
StatusForFulfillment(row) ==
    IF row.amount_fulfilled >= row.amount THEN FULFILLED
    ELSE IF row.amount_fulfilled > 0 THEN PARTIALLY_FULFILLED
    ELSE row.status

\* The line items as they were before the scan (sensitivity variant).
EarlierLineItems(its, line_item, t) == ItemsOf(its, t)

\* scan_barcode: the line items the new totals are summed over (all_line_items,
\* queried after the new line item was created).
AllLineItems(its, line_item, t) == ItemsOf([its EXCEPT ![t] = Append(its[t], line_item)], t)

\* FulfillmentService.scan_barcode
ScanOutcome(t, p, quantity) ==
    LET txn == txns[t]
        line_item == LineItem(t, p, quantity)
        all_line_items == AllLineItems(items, line_item, t)
        new_total == SumLineTotal(all_line_items)
        new_cost == SumLineCost(all_line_items)
        new_pv == SumLinePv(all_line_items)
        totals == [txn EXCEPT !.amount_fulfilled = new_total,
                              !.total_cost = Some(new_cost),
                              !.total_pv = Some(new_pv)]
        inst == [totals EXCEPT !.status = StatusForFulfillment(totals)]
        saved == Save(inst, txn, FALSE)
    IN  IF NotInIssuance(txn) THEN Raise("NotInIssuance")
        ELSE IF p \notin Products THEN Raise("ProductNotFound")
        ELSE IF QuantityRefused(quantity) THEN Raise("InvalidQuantity")
        ELSE IF stock[p] < quantity THEN Raise("InsufficientStock")
        ELSE IF new_total > txn.amount THEN Raise("AmountExceeded")
        ELSE IF ~saved.ok THEN Raise("ValidationError")
        ELSE Outcome("", [txns EXCEPT ![t] = saved.row],
                     [items EXCEPT ![t] = Append(items[t], line_item)],
                     stock, movements)

\* A movement that records the quantity sold as a gain (sensitivity variant).
UnsignedSaleMovement(item, quantity_before, quantity_after, t) ==
    [movement_type |-> "SALE", product |-> item.product,
     quantity_before |-> quantity_before,
     quantity_after |-> quantity_after,
     quantity_change |-> item.quantity,
     reference |-> t]

\* complete_issuance: the InventoryMovement written for one line item.
SaleMovement(item, quantity_before, quantity_after, t) ==
    [movement_type |-> "SALE", product |-> item.product,
     quantity_before |-> quantity_before,
     quantity_after |-> quantity_after,
     quantity_change |-> 0 - item.quantity,
     reference |-> t]

\* A completion that never finds the stock short (sensitivity variant).
StockNeverShort(stk, item) == FALSE

\* complete_issuance: the stock re-check made for each line item.
StockShort(stk, item) == stk[item.product] < item.quantity

\* complete_issuance: the loop over the line items; each re-checks the stock,
\* deducts it and writes one SALE movement.
RECURSIVE DeductInventory(_, _, _, _)
DeductInventory(its, stk, movs, t) ==
    IF its = <<>> THEN [ok |-> TRUE, stock |-> stk, movements |-> movs]
    ELSE LET item == Head(its)
             product == item.product
             quantity_before == stk[product]
             quantity_after == quantity_before - item.quantity
             movement == SaleMovement(item, quantity_before, quantity_after, t)
         IN  IF StockShort(stk, item)
             THEN [ok |-> FALSE, stock |-> stk, movements |-> movs]
             ELSE DeductInventory(Tail(its),
                                  [stk EXCEPT ![product] = quantity_after],
                                  Append(movs, movement), t)

\* FulfillmentService.complete_issuance on the row txn that its
\* select_for_update returned.
CompleteOn(txn, t) ==
    LET line_items == ItemsOf(items, t)
        deducted == DeductInventory(line_items, stock, movements, t)
        released == [txn EXCEPT !.is_in_issuance = FALSE]
        inst == [released EXCEPT !.status = StatusForFulfillment(released)]
        saved == Save(inst, txn, FALSE)
    IN  IF NotInIssuance(txn) THEN Raise("NotInIssuance")
        ELSE IF line_items = <<>> THEN Raise("EmptyIssuance")
        ELSE IF ~deducted.ok THEN Raise("InsufficientStock")
        ELSE IF ~saved.ok THEN Raise("ValidationError")
        ELSE Outcome("", [txns EXCEPT ![t] = saved.row], items,
                     deducted.stock, deducted.movements)

\* FulfillmentService.complete_issuance
CompleteOutcome(t) == CompleteOn(txns[t], t)

\* A cancellation that keeps the status (sensitivity variant).
KeptStatus(status) == status

\* cancel_issuance: the status the cancellation reverts to.
RevertedStatus(status) ==
    IF status \in {PROCESSING, PARTIALLY_FULFILLED} THEN NOT_PROCESSED ELSE status

\* FulfillmentService.cancel_issuance on the row txn that its
\* select_for_update returned.
CancelIssuanceOn(txn, t, reason) ==
    LET inst == [txn EXCEPT !.is_in_issuance = FALSE,
                            !.amount_fulfilled = 0,
                            !.total_cost = None,
                            !.total_pv = None,
                            !.status = RevertedStatus(txn.status),
                            !.notes = IF reason # ""
                                      THEN Append(txn.notes, "Issuance Cancelled: " \o reason)
                                      ELSE txn.notes]
        saved == Save(inst, txn, TRUE)
    IN  IF NotInIssuance(txn) THEN Raise("NotInIssuance")
        ELSE IF ~saved.ok THEN Raise("IntegrityError")
        ELSE Outcome("", [txns EXCEPT ![t] = saved.row],
                     [items EXCEPT ![t] = <<>>],
                     stock, movements)

\* FulfillmentService.cancel_issuance
CancelIssuanceOutcome(t, reason) == CancelIssuanceOn(txns[t], t, reason)

\* ------------------------------------------------------------------ order_service.py
\* The notes text with one more entry.
WithNote(notes, entry) == IF entry # "" THEN Append(notes, entry) ELSE notes

\* OrderStatusService.mark_as_processing on the instance the caller loaded.
MarkAsProcessingOutcome(t, notes) ==
    LET txn == txns[t]
        inst == [txn EXCEPT !.status = PROCESSING,
                            !.notes = WithNote(txn.notes, notes)]
        saved == Save(inst, txn, FALSE)
    IN  IF IsLocked(txn) THEN Raise("TransactionLocked")
        ELSE IF ~CanTransitionTo(txn, PROCESSING) THEN Raise("InvalidStatusTransition")
        ELSE IF ~saved.ok THEN Raise("ValidationError")
        ELSE Outcome("", [txns EXCEPT ![t] = saved.row], items, stock, movements)

\* OrderStatusService.allocate_payment on the instance `transaction` a caller
\* holds in memory while the table holds `stored` for the same primary key:
\* the checks read the instance, clean() compares with the stored row, and
\* save() writes every column of the instance.  The result is [err, row].
AllocatePaymentOn(transaction, stored, amount) ==
    LET inst == [transaction EXCEPT !.amount_paid = transaction.amount_paid + amount,
                                    !.notes = Append(transaction.notes, "Allocated")]
        saved == Save(inst, stored, FALSE)
    IN  IF IsLocked(transaction) THEN [err |-> "TransactionLocked", row |-> stored]
        ELSE IF amount <= 0 THEN [err |-> "AmountNotPositive", row |-> stored]
        ELSE IF amount > RemainingAmount(transaction)
        THEN [err |-> "InsufficientAmount", row |-> stored]
        ELSE IF ~saved.ok THEN [err |-> "ValidationError", row |-> stored]
        ELSE [err |-> "", row |-> saved.row]

\* OrderStatusService.allocate_payment on the instance the caller loaded.
AllocatePaymentOutcome(t, amount) ==
    LET r == AllocatePaymentOn(txns[t], txns[t], amount)
    IN  Outcome(r.err, [txns EXCEPT ![t] = r.row], items, stock, movements)

\* OrderStatusService.mark_as_fulfilled on the instance the caller loaded.
MarkAsFulfilledOutcome(t) ==
    LET txn == txns[t]
        inst == [txn EXCEPT !.status = FULFILLED,
                            !.notes = Append(txn.notes, "Manually marked as FULFILLED")]
        saved == Save(inst, txn, FALSE)
    IN  IF IsLocked(txn) THEN Raise("TransactionLocked")
        ELSE IF ~CanTransitionTo(txn, FULFILLED) THEN Raise("InvalidStatusTransition")
        ELSE IF ~saved.ok THEN Raise("ValidationError")
        ELSE Outcome("", [txns EXCEPT ![t] = saved.row], items, stock, movements)

\* OrderStatusService.cancel_transaction on the instance the caller loaded.
CancelTransactionOutcome(t, reason) ==
    LET txn == txns[t]
        inst == [txn EXCEPT !.status = CANCELLED,
                            !.notes = Append(txn.notes, "CANCELLED - " \o reason)]
        saved == Save(inst, txn, FALSE)
    IN  IF IsLocked(txn) THEN Raise("TransactionLocked")
        ELSE IF reason = "" THEN Raise("ReasonRequired")
        ELSE IF ~CanTransitionTo(txn, CANCELLED) THEN Raise("InvalidStatusTransition")
        ELSE IF ~saved.ok THEN Raise("ValidationError")
        ELSE Outcome("", [txns EXCEPT ![t] = saved.row], items, stock, movements)

\* ------------------------------------------------------------------ actions
\* The store after an operation with outcome o, and the record of the call.
Commit(o, call) ==
    /\ txns' = o.txns
    /\ items' = o.items
    /\ stock' = o.stock
    /\ movements' = o.movements
    /\ last' = call
    /\ emitted' = UpdatedBy(call)
    /\ UNCHANGED <<pc, raw, handled, instance>>

\* What a scanner may send: a catalogued product code or an unknown one.
Barcodes == Products \cup {"unknown"}

activate_issuance(t) ==
    LET o == ActivateOutcome(t)
    IN  Commit(o, Call("activate_issuance", t, o.err))

scan_barcode(t, p, quantity) ==
    LET o == ScanOutcome(t, p, quantity)
    IN  Commit(o, Call("scan_barcode", t, o.err))

complete_issuance(t) ==
    LET o == CompleteOutcome(t)
    IN  Commit(o, Call("complete_issuance", t, o.err))

cancel_issuance(t, reason) ==
    LET o == CancelIssuanceOutcome(t, reason)
    IN  Commit(o, Call("cancel_issuance", t, o.err))

mark_as_processing(t, notes) ==
    LET o == MarkAsProcessingOutcome(t, notes)
    IN  Commit(o, Call("mark_as_processing", t, o.err))

allocate_payment(t, amount) ==
    LET o == AllocatePaymentOutcome(t, amount)
    IN  Commit(o, Call("allocate_payment", t, o.err))

mark_as_fulfilled(t) ==
    LET o == MarkAsFulfilledOutcome(t)
    IN  Commit(o, Call("mark_as_fulfilled", t, o.err))

cancel_transaction(t, reason) ==
    LET o == CancelTransactionOutcome(t, reason)
    IN  Commit(o, Call("cancel_transaction", t, o.err))

\* The rows exist (created as process_raw_message creates them) and the
\* catalog is stocked; nothing has been scanned or issued.
Init ==
    /\ \E amount \in [TxnIds -> AmountChoices] :
          txns = [t \in TxnIds |-> NewTransaction(t, amount[t], t)]
    /\ items = [t \in TxnIds |-> <<>>]
    /\ stock \in [Products -> StockChoices]
    /\ movements = <<>>
    /\ last = NoCall
    /\ pc = [w \in Workers |-> Idle]
    /\ raw = <<>>
    /\ handled = {}
    /\ instance = [w \in Workers |-> None]
    /\ emitted = <<>>

Next ==
    \/ \E t \in DOMAIN txns : activate_issuance(t)
    \/ \E t \in DOMAIN txns, p \in Barcodes, quantity \in Quantities :
          scan_barcode(t, p, quantity)
    \/ \E t \in DOMAIN txns : complete_issuance(t)
    \/ \E t \in DOMAIN txns : \E reason \in NoteChoices(txns[t]) : cancel_issuance(t, reason)
    \/ \E t \in DOMAIN txns : mark_as_processing(t, "")
    \/ \E t \in DOMAIN txns, amount \in AllocAmounts : allocate_payment(t, amount)
    \/ \E t \in DOMAIN txns : mark_as_fulfilled(t)
    \/ \E t \in DOMAIN txns, reason \in {"", "note"} : cancel_transaction(t, reason)

Spec == Init /\ [][Next]_vars

\* The lifecycle restricted to mark_as_processing and allocate_payment calls.
NextAlloc ==
    \/ \E t \in DOMAIN txns : \E notes \in NoteChoices(txns[t]) : mark_as_processing(t, notes)
    \/ \E t \in DOMAIN txns, amount \in AllocAmounts : allocate_payment(t, amount)

SpecAlloc == Init /\ [][NextAlloc]_vars

\* ------------------------------------------------------------------ concurrent activation
\* activate_issuance, lines 52-60: the query for another slot holder, made
\* before any row is locked.  The caller either raises or goes on to lock
\* its own row.
activate_check(w, t) ==
    /\ pc[w] = Idle
    /\ IF ExistingIssuance(txns, t) # {}
       THEN /\ last' = Call("activate_issuance", t, "IssuanceAlreadyActive")
            /\ UNCHANGED pc
       ELSE /\ pc' = [pc EXCEPT ![w] = [step |-> "checked", arg |-> t]]
            /\ UNCHANGED last
    /\ emitted' = <<>>
    /\ UNCHANGED <<txns, items, stock, movements, raw, handled, instance>>

\* activate_issuance, lines 63-85: select_for_update on the caller's own row,
\* validation, flag and save, committed when the atomic block ends.
activate_write(w) ==
    /\ pc[w].step = "checked"
    /\ LET t == pc[w].arg
           r == ActivateLocked(txns, t)
       IN  /\ txns' = r.txns
           /\ last' = Call("activate_issuance", t, r.err)
    /\ pc' = [pc EXCEPT ![w] = Idle]
    /\ emitted' = <<>>
    /\ UNCHANGED <<items, stock, movements, raw, handled, instance>>

InitSlot ==
    /\ \E amount \in [SlotTxnIds -> AmountChoices] :
          txns = [t \in SlotTxnIds |-> NewTransaction(t, amount[t], t)]
    /\ items = [t \in SlotTxnIds |-> <<>>]
    /\ stock \in [Products -> StockChoices]
    /\ movements = <<>>
    /\ last = NoCall
    /\ pc = [w \in Workers |-> Idle]
    /\ raw = <<>>
    /\ handled = {}
    /\ instance = [w \in Workers |-> None]
    /\ emitted = <<>>

NextSlot ==
    \/ \E w \in Workers, t \in DOMAIN txns : activate_check(w, t)
    \/ \E w \in Workers : activate_write(w)
    \/ \E t \in DOMAIN txns : cancel_issuance(t, "")

SpecSlot == InitSlot /\ [][NextSlot]_vars

\* Activation among several transactions, each call run on its own: the
\* calls that decide whether activate_issuance succeeds (slot holder, status,
\* allocated amount).
NextActivate ==
    \/ \E t \in DOMAIN txns : activate_issuance(t)
    \/ \E t \in DOMAIN txns : cancel_issuance(t, "")
    \/ \E t \in DOMAIN txns, amount \in AllocAmounts : allocate_payment(t, amount)
    \/ \E t \in DOMAIN txns : cancel_transaction(t, "note")

SpecActivate == InitSlot /\ [][NextActivate]_vars

\* ------------------------------------------------------------------ callers with their own instance
\* A caller (view, admin action) loads the Transaction it will hand to
\* OrderStatusService: Transaction.objects.get, without a lock.
load_instance(w, t) ==
    /\ pc[w] = Idle
    /\ pc' = [pc EXCEPT ![w] = [step |-> "loaded", arg |-> t]]
    /\ instance' = [instance EXCEPT ![w] = Some(txns[t])]
    /\ emitted' = <<>>
    /\ UNCHANGED <<txns, items, stock, movements, last, raw, handled>>

\* The caller runs allocate_payment on the instance it loaded; other callers
\* may have committed since.
allocate_payment_call(w, amount) ==
    /\ pc[w].step = "loaded"
    /\ LET t == pc[w].arg
           r == AllocatePaymentOn(instance[w][1], txns[t], amount)
       IN  /\ txns' = [txns EXCEPT ![t] = r.row]
           /\ last' = Call("allocate_payment", t, r.err)
           /\ emitted' = UpdatedBy(Call("allocate_payment", t, r.err))
    /\ pc' = [pc EXCEPT ![w] = Idle]
    /\ instance' = [instance EXCEPT ![w] = None]
    /\ UNCHANGED <<items, stock, movements, raw, handled>>

\* The caller runs mark_as_processing on the instance it loaded.
mark_as_processing_call(w) ==
    /\ pc[w].step = "loaded"
    /\ LET t == pc[w].arg
           transaction == instance[w][1]
           saved == Save([transaction EXCEPT !.status = PROCESSING], txns[t], FALSE)
           err == IF IsLocked(transaction) THEN "TransactionLocked"
                  ELSE IF ~CanTransitionTo(transaction, PROCESSING)
                  THEN "InvalidStatusTransition"
                  ELSE IF ~saved.ok THEN "ValidationError"
                  ELSE ""
       IN  /\ txns' = IF err = "" THEN [txns EXCEPT ![t] = saved.row] ELSE txns
           /\ last' = Call("mark_as_processing", t, err)
           /\ emitted' = UpdatedBy(Call("mark_as_processing", t, err))
    /\ pc' = [pc EXCEPT ![w] = Idle]
    /\ instance' = [instance EXCEPT ![w] = None]
    /\ UNCHANGED <<items, stock, movements, raw, handled>>

NextCallers ==
    \/ \E w \in Workers, t \in DOMAIN txns : load_instance(w, t)
    \/ \E w \in Workers, amount \in AllocAmounts : allocate_payment_call(w, amount)
    \/ \E w \in Workers : mark_as_processing_call(w)

SpecCallers == Init /\ [][NextCallers]_vars

\* ------------------------------------------------------------------ tasks.py, parsers.py
\* A RawMessage row.  Its raw_text is kept as what parse_mpesa_sms extracts
\* from it; has_gateway tells whether message.device.gateway is set.
RawMessage(tx_id, amount, timestamp, confidence, has_gateway) ==
    [tx_id |-> tx_id, amount |-> amount, timestamp |-> timestamp,
     confidence |-> confidence, has_gateway |-> has_gateway,
     processed |-> FALSE, transaction |-> None]

RawMessageChoices ==
    {RawMessage(x, a, ts, c, g) :
        x \in MsgTxIds, a \in MsgAmounts, ts \in MsgTimestamps,
        c \in MsgConfidences, g \in BOOLEAN}

\* parse_mpesa_sms: the structured fact, or the zero-confidence marker.
ParseMpesaSms(message) ==
    IF message.confidence = 0 THEN [confidence |-> 0]
    ELSE [tx_id |-> message.tx_id, amount |-> message.amount,
          timestamp |-> message.timestamp, confidence |-> message.confidence]

\* The confidence threshold 0.8, in percent.
ConfidenceThreshold == 80

\* sha256 over "tx_id|amount|timestamp": equal for equal triples, taken as
\* different for different ones.
UniqueHash(tx_id, amount, timestamp) == <<tx_id, amount, timestamp>>

\* The digits a DecimalField keeps of a float: max_digits significant ones.
MaxDigits == 10
\* The decimal places the field's validator allows.
DecimalPlaces == 2

\* Ten to the power n.
RECURSIVE Pow10(_)
Pow10(n) == IF n = 0 THEN 1 ELSE 10 * Pow10(n - 1)

\* A field that takes every amount of two decimal places (sensitivity variant).
DecimalFieldTakesAll(cents) == TRUE

\* DecimalField(max_digits=10, decimal_places=2) validating the float that
\* normalize_amount returns.  to_python converts the float's exact binary
\* value under a context of max_digits significant digits: a multiple of a
\* quarter is exact and keeps its own (at most two) decimals; any other
\* amount is rounded to max_digits significant digits, which leaves more
\* than two decimal places unless it has at least eight whole digits.
DecimalFieldAccepts(cents) ==
    \/ cents % 25 = 0
    \/ cents >= Pow10(MaxDigits - DecimalPlaces - 1) * 100

\* The rows a new Transaction with this tx_id and unique_hash collides with
\* (both columns are unique).
Colliding(tab, tx_id, unique_hash) ==
    {t \in DOMAIN tab : tab[t].tx_id = tx_id \/ tab[t].unique_hash = unique_hash}

\* Transaction.objects.get(unique_hash=...)
WithHash(tab, unique_hash) == {t \in DOMAIN tab : tab[t].unique_hash = unique_hash}

HashOf(message) == UniqueHash(message.tx_id, message.amount, message.timestamp)

\* The task for message m ends with this outcome.
Finish(w, m, outcome) ==
    /\ pc' = [pc EXCEPT ![w] = Idle]
    /\ handled' = handled \cup {m}
    /\ last' = Call("process_raw_message", m, outcome)

\* A task that takes no message as processed (sensitivity variant).
NeverProcessed(message) == FALSE

\* process_raw_message, lines 19-21: the processed flag stops the task.
AlreadyProcessed(message) == message.processed

\* process_raw_message, lines 18-32: load the message, stop if it is
\* processed, parse it and stop below the confidence threshold.
start_task(w, m) ==
    /\ pc[w] = Idle
    /\ LET parsed_data == ParseMpesaSms(raw[m])
       IN  IF AlreadyProcessed(raw[m]) THEN Finish(w, m, "already_processed")
           ELSE IF ~(parsed_data.confidence > ConfidenceThreshold)
           THEN Finish(w, m, "low_confidence")
           ELSE /\ pc' = [pc EXCEPT ![w] = [step |-> "create", arg |-> m]]
                /\ UNCHANGED <<handled, last>>
    /\ emitted' = <<>>
    /\ UNCHANGED <<txns, items, stock, movements, raw, instance>>

\* process_raw_message, lines 35-44: the gateway check, then the full_clean
\* that Transaction.objects.create runs through save(): field validation and
\* the uniqueness queries.
create_validate(w) ==
    /\ pc[w].step = "create"
    /\ LET m == pc[w].arg
           message == raw[m]
       IN  IF ~message.has_gateway THEN Finish(w, m, "no_gateway")
           ELSE /\ pc' = [pc EXCEPT ![w] =
                            [step |-> IF /\ DecimalFieldAccepts(message.amount)
                                         /\ Colliding(txns, message.tx_id, HashOf(message)) = {}
                                      THEN "insert" ELSE "except",
                             arg |-> m]]
                /\ UNCHANGED <<handled, last>>
    /\ emitted' = <<>>
    /\ UNCHANGED <<txns, items, stock, movements, raw, instance>>

\* process_raw_message, lines 44-59: the INSERT under the unique indexes,
\* then the message is linked and marked processed; committed together.
create_insert(w) ==
    /\ pc[w].step = "insert"
    /\ LET m == pc[w].arg
           message == raw[m]
           new_transaction == NewTransaction(message.tx_id, message.amount, HashOf(message))
       IN  IF Colliding(txns, message.tx_id, HashOf(message)) # {}
           THEN /\ pc' = [pc EXCEPT ![w] = [step |-> "except", arg |-> m]]
                /\ emitted' = <<>>
                /\ UNCHANGED <<txns, items, raw, handled, last>>
           ELSE /\ txns' = Append(txns, new_transaction)
                /\ emitted' = <<Notification("transaction.created", Len(txns) + 1)>>
                /\ items' = Append(items, <<>>)
                /\ raw' = [raw EXCEPT ![m] = [message EXCEPT
                                                 !.transaction = Some(Len(txns) + 1),
                                                 !.processed = TRUE]]
                /\ Finish(w, m, "")
    /\ UNCHANGED <<stock, movements, instance>>

\* process_raw_message, lines 65-71 and 78-79: after any exception the
\* existing transaction is looked up by hash and linked; a failed lookup is
\* logged and the task ends.
link_existing(w) ==
    /\ pc[w].step = "except"
    /\ LET m == pc[w].arg
           message == raw[m]
           existing == WithHash(txns, HashOf(message))
       IN  IF existing = {}
           THEN /\ Finish(w, m, "DoesNotExist")
                /\ UNCHANGED raw
           ELSE /\ raw' = [raw EXCEPT ![m] = [message EXCEPT
                                                 !.transaction = Some(CHOOSE t \in existing : TRUE),
                                                 !.processed = TRUE]]
                /\ Finish(w, m, "")
    /\ emitted' = <<>>
    /\ UNCHANGED <<txns, items, stock, movements, instance>>

InitMsg ==
    /\ txns = <<>>
    /\ items = <<>>
    /\ stock = [p \in Products |-> MaxStock]
    /\ movements = <<>>
    /\ last = NoCall
    /\ pc = [w \in Workers |-> Idle]
    /\ raw \in [MsgIds -> RawMessageChoices]
    /\ handled = {}
    /\ instance = [w \in Workers |-> None]
    /\ emitted = <<>>

NextMsg ==
    \/ \E w \in Workers, m \in DOMAIN raw : start_task(w, m)
    \/ \E w \in Workers : create_validate(w)
    \/ \E w \in Workers : create_insert(w)
    \/ \E w \in Workers : link_existing(w)

SpecMsg == InitMsg /\ [][NextMsg]_vars

\* --------------------------------------- the atomic block of the task, by step
\* process_raw_message with the statements of its atomic block taken one by
\* one: the INSERT, the broadcast (line 63, inside the block) and the commit
\* at the end of the block.  Until the commit the new row is seen by its
\* worker only; it is kept in instance[w].

\* The rows that open atomic blocks of other workers have inserted and that
\* collide with this tx_id or unique_hash: the INSERT waits for them.
PendingCollision(w, tx_id, unique_hash) ==
    \E v \in Workers \ {w} :
        /\ instance[v] # None
        /\ \/ instance[v][1].tx_id = tx_id
           \/ instance[v][1].unique_hash = unique_hash

\* process_raw_message, lines 44-59: Transaction.objects.create and
\* message.save() inside the atomic block.
insert_row(w) ==
    /\ pc[w].step = "insert"
    /\ LET m == pc[w].arg
           message == raw[m]
           new_transaction == NewTransaction(message.tx_id, message.amount, HashOf(message))
       IN  /\ ~PendingCollision(w, message.tx_id, HashOf(message))
           /\ IF Colliding(txns, message.tx_id, HashOf(message)) # {}
              THEN /\ pc' = [pc EXCEPT ![w] = [step |-> "except", arg |-> m]]
                   /\ UNCHANGED instance
              ELSE /\ pc' = [pc EXCEPT ![w] = [step |-> "inserted", arg |-> m]]
                   /\ instance' = [instance EXCEPT ![w] = Some(new_transaction)]
    /\ emitted' = <<>>
    /\ UNCHANGED <<txns, items, stock, movements, last, raw, handled>>

\* process_raw_message, line 63: _broadcast_transaction_created, which
\* catches and logs whatever the channel layer raises (raised: it did).
broadcast_created(w, raised) ==
    /\ pc[w].step = "inserted"
    /\ pc' = [pc EXCEPT ![w] = [step |-> "broadcast", arg |-> pc[w].arg]]
    /\ emitted' = IF raised THEN <<>>
                  ELSE <<Notification("transaction.created", Len(txns) + 1)>>
    /\ UNCHANGED <<txns, items, stock, movements, last, raw, handled, instance>>

\* The end of the atomic block: the row and the processed message commit.
commit_created(w) ==
    /\ pc[w].step = "broadcast"
    /\ LET m == pc[w].arg
       IN  /\ txns' = Append(txns, instance[w][1])
           /\ items' = Append(items, <<>>)
           /\ raw' = [raw EXCEPT ![m] = [raw[m] EXCEPT
                                            !.transaction = Some(Len(txns) + 1),
                                            !.processed = TRUE]]
           /\ Finish(w, m, "")
    /\ instance' = [instance EXCEPT ![w] = None]
    /\ emitted' = <<>>
    /\ UNCHANGED <<stock, movements>>

NextEmit ==
    \/ \E w \in Workers, m \in DOMAIN raw : start_task(w, m)
    \/ \E w \in Workers : create_validate(w)
    \/ \E w \in Workers : insert_row(w)
    \/ \E w \in Workers, raised \in BOOLEAN : broadcast_created(w, raised)
    \/ \E w \in Workers : commit_created(w)
    \/ \E w \in Workers : link_existing(w)

SpecEmit == InitMsg /\ [][NextEmit]_vars

\* ------------------------------------------------ transaction update endpoint
\* TransactionDetailView (RetrieveUpdateAPIView): the serializer writes the
\* fields that are not read-only onto the loaded row and saves it.  status
\* and amount_paid are writable; amount and amount_fulfilled are read-only.
UpdateOutcome(t, status, amount_paid) ==
    LET txn == txns[t]
        inst == [txn EXCEPT !.status = status, !.amount_paid = amount_paid]
        saved == Save(inst, txn, FALSE)
    IN  IF ~saved.ok THEN Raise("ValidationError")
        ELSE Outcome("", [txns EXCEPT ![t] = saved.row], items, stock, movements)

update(t, status, amount_paid) ==
    LET o == UpdateOutcome(t, status, amount_paid)
    IN  Commit(o, Call("update", t, o.err))

NextUpdate ==
    \/ \E t \in DOMAIN txns : mark_as_processing(t, "")
    \/ \E t \in DOMAIN txns : mark_as_fulfilled(t)
    \/ \E t \in DOMAIN txns : cancel_transaction(t, "")
    \/ \E t \in DOMAIN txns, status \in OrderStatus, amount_paid \in AllocAmounts :
          update(t, status, amount_paid)

SpecUpdate == Init /\ [][NextUpdate]_vars

\* ------------------------------------- concurrent completion and cancellation
\* complete_issuance and cancel_issuance as requests of concurrent workers:
\* the request arrives for a slot holder, select_for_update takes the row lock
\* and returns the row, and the atomic block runs on that row and commits.
FinishOps == {"complete_issuance", "cancel_issuance"}

Called(op) == "called " \o op
Locking(op) == "locked " \o op

\* What a finished request returned: "succeeded" or the error raised.
Returned(err) == IF err = "" THEN "succeeded" ELSE err

InFlight(w) == \E op \in FinishOps : pc[w].step \in {Called(op), Locking(op)}

\* No request is in flight or waiting to be read (sensitivity variant: the
\* row lock is never seen).
RowNeverLocked(t) == FALSE

\* Transaction.objects.select_for_update().get(id=...): some worker's open
\* atomic block holds the lock on row t.
RowLocked(t) ==
    \E w \in Workers, op \in FinishOps : pc[w] = [step |-> Locking(op), arg |-> t]

\* The request arrives while the transaction holds the slot and every other
\* request is either in flight or not made yet, so that the requests whose
\* responses are compared have overlapped.
call_finish(w, t, op) ==
    /\ pc[w] = Idle
    /\ \A v \in Workers : pc[v] = Idle \/ InFlight(v)
    /\ txns[t].is_in_issuance
    /\ pc' = [pc EXCEPT ![w] = [step |-> Called(op), arg |-> t]]
    /\ UNCHANGED <<txns, items, stock, movements, last, raw, handled, instance, emitted>>

\* select_for_update: waits for the row lock, then reads the row.
lock_finish(w) ==
    \E op \in FinishOps :
        /\ pc[w].step = Called(op)
        /\ ~RowLocked(pc[w].arg)
        /\ pc' = [pc EXCEPT ![w] = [step |-> Locking(op), arg |-> pc[w].arg]]
        /\ instance' = [instance EXCEPT ![w] = Some(txns[pc[w].arg])]
        /\ UNCHANGED <<txns, items, stock, movements, last, raw, handled, emitted>>

\* The rest of the atomic block, and its commit or rollback.
commit_finish(w) ==
    \E op \in FinishOps :
        /\ pc[w].step = Locking(op)
        /\ LET t == pc[w].arg
               txn == instance[w][1]
               o == IF op = "complete_issuance" THEN CompleteOn(txn, t)
                    ELSE CancelIssuanceOn(txn, t, "")
           IN  /\ txns' = o.txns
               /\ items' = o.items
               /\ stock' = o.stock
               /\ movements' = o.movements
               /\ last' = Call(op, t, o.err)
               /\ pc' = [pc EXCEPT ![w] = [step |-> Returned(o.err), arg |-> t]]
        /\ instance' = [instance EXCEPT ![w] = None]
        /\ emitted' = <<>>
        /\ UNCHANGED <<raw, handled>>

\* The responses are delivered once no request is in flight.
return_finish ==
    /\ \A w \in Workers : ~InFlight(w)
    /\ \E w \in Workers : pc[w] # Idle
    /\ pc' = [w \in Workers |-> Idle]
    /\ UNCHANGED <<txns, items, stock, movements, last, raw, handled, instance, emitted>>

NextFinish ==
    \/ \E t \in DOMAIN txns : pc = [w \in Workers |-> Idle] /\ activate_issuance(t)
    \/ \E t \in DOMAIN txns, p \in Barcodes, quantity \in Quantities :
          pc = [w \in Workers |-> Idle] /\ scan_barcode(t, p, quantity)
    \/ \E w \in Workers, t \in DOMAIN txns, op \in FinishOps : call_finish(w, t, op)
    \/ \E w \in Workers : lock_finish(w)
    \/ \E w \in Workers : commit_finish(w)
    \/ return_finish

SpecFinish == Init /\ [][NextFinish]_vars

\* ------------------------------------ issuance beside callers with own copies
\* The issuance workflow while callers of OrderStatusService hold instances
\* they loaded earlier: allocate_payment saves every column of its instance.
NextStale ==
    \/ \E t \in DOMAIN txns : activate_issuance(t)
    \/ \E t \in DOMAIN txns, p \in Barcodes, quantity \in Quantities :
          scan_barcode(t, p, quantity)
    \/ \E t \in DOMAIN txns : complete_issuance(t)
    \/ \E w \in Workers, t \in DOMAIN txns : load_instance(w, t)
    \/ \E w \in Workers, amount \in AllocAmounts : allocate_payment_call(w, amount)

SpecStale == Init /\ [][NextStale]_vars

\* ------------------------------------------------------------------ properties
\* What an operation may change besides the record of the call.
store == <<txns, items, stock, movements>>

\* C1: for every Transaction, after any sequence of the eight service calls,
\* 0 <= amount_fulfilled <= amount.
C1_AmountFulfilledWithinAmount ==
    \A t \in DOMAIN txns :
        /\ 0 <= txns[t].amount_fulfilled
        /\ txns[t].amount_fulfilled <= txns[t].amount

\* A scan has just filled a transaction up to its amount, line items in place.
C1_Witness ==
    \E t \in DOMAIN txns :
        /\ last = Call("scan_barcode", t, "")
        /\ Len(items[t]) >= 2
        /\ txns[t].amount_fulfilled = txns[t].amount

\* C2: once a Transaction is FULFILLED or CANCELLED no later service call
\* changes its status, amount, amount_fulfilled or amount_paid.
C2_LockedNeverChanges ==
    [][\A t \in DOMAIN txns :
          IsLocked(txns[t]) =>
              /\ txns'[t].status = txns[t].status
              /\ txns'[t].amount = txns[t].amount
              /\ txns'[t].amount_fulfilled = txns[t].amount_fulfilled
              /\ txns'[t].amount_paid = txns[t].amount_paid]_vars

\* The sum of t's line totals with one more line item of quantity units of p.
TotalWith(t, p, quantity) == SumLineTotal(items[t]) + quantity * CurrentPrice(p)

\* C4: a scan_barcode call whose line item would make the sum of the line
\* totals exceed amount fails and leaves line items, amount_fulfilled,
\* total_cost, total_pv, status and every product quantity as they were.
\* Stated per call: a call that raises changes nothing, and a call that
\* returns is the scan of the line item it added, whose total together with
\* the earlier ones does not exceed amount (so no exceeding scan returns).
C4_ScanOverAmountChangesNothing ==
    [][last'.op = "scan_barcode" =>
          LET t == last'.t
          IN  IF last'.err # "" THEN UNCHANGED store
              ELSE LET line_item == items'[t][Len(items'[t])]
                   IN  /\ items'[t] = Append(items[t], line_item)
                       /\ scan_barcode(t, line_item.product, line_item.quantity)
                       /\ ~(TotalWith(t, line_item.product, line_item.quantity)
                              > txns[t].amount)]_vars

\* A scan was refused for exceeding the amount while a line item is in place.
C4_Witness ==
    \E t \in DOMAIN txns :
        /\ last = Call("scan_barcode", t, "AmountExceeded")
        /\ items[t] # <<>>
        /\ txns[t].amount_fulfilled > 0

\* C6: for a transaction marked PROCESSING, in any sequence of
\* allocate_payment calls each call succeeds exactly when its amount is
\* positive and not larger than the current remaining_amount, and then
\* lowers remaining_amount by exactly that amount; the status is
\* PARTIALLY_FULFILLED while the allocated sum is strictly between 0 and
\* amount, FULFILLED (locked, remaining 0) when it equals amount, and every
\* allocation after that fails.
C6_AllocationAccounting ==
    /\ [](\A t \in DOMAIN txns :
            txns[t].status # NOT_PROCESSED =>
                /\ (0 < txns[t].amount_paid /\ txns[t].amount_paid < txns[t].amount)
                       => txns[t].status = PARTIALLY_FULFILLED
                /\ txns[t].amount_paid = txns[t].amount
                       => (txns[t].status = FULFILLED /\ RemainingAmount(txns[t]) = 0)
                /\ txns[t].amount_paid = 0 => txns[t].status = PROCESSING)
    /\ [][last'.op = "allocate_payment" =>
            \A t \in DOMAIN txns, amount \in AllocAmounts :
                (allocate_payment(t, amount) /\ txns[t].status # NOT_PROCESSED) =>
                    /\ last'.err = "" <=>
                           (amount > 0 /\ amount <= RemainingAmount(txns[t]))
                    /\ last'.err = "" =>
                           RemainingAmount(txns'[t]) = RemainingAmount(txns[t]) - amount
                    /\ last'.err # "" => UNCHANGED store
                    /\ txns[t].status = FULFILLED => last'.err = "TransactionLocked"]_vars

\* Allocations have used a PROCESSING transaction up: it is FULFILLED after
\* more than one allocation.
C6_Witness ==
    \E t \in DOMAIN txns :
        /\ last = Call("allocate_payment", t, "")
        /\ txns[t].status = FULFILLED
        /\ Len(txns[t].notes) >= 2
        /\ txns[t].amount_paid = txns[t].amount

\* C7: every change of a stored status made by one save() without the
\* validation bypass (every operation but cancel_issuance) goes to a status
\* the legal-transition table lists for the status stored before, and a
\* rejected save leaves the record unchanged.
C7_StoredStatusFollowsTable ==
    [][last'.op # "cancel_issuance" =>
          \A t \in DOMAIN txns :
              /\ txns'[t].status # txns[t].status
                     => txns'[t].status \in ValidTransitions(txns[t].status)
              /\ last'.err # "" => txns'[t] = txns[t]]_vars

\* Units of product p in t's line items.
RECURSIVE Demand(_, _)
Demand(its, p) ==
    IF its = <<>> THEN 0
    ELSE (IF Head(its).product = p THEN Head(its).quantity ELSE 0) + Demand(Tail(its), p)

\* The movements a completion of t appended are one SALE per line item, in
\* order, each with quantity_change = -quantity and a consistent after value.
SaleMovementsFor(t) ==
    /\ Len(movements') = Len(movements) + Len(items[t])
    /\ SubSeq(movements', 1, Len(movements)) = movements
    /\ \A i \in 1..Len(items[t]) :
          LET m == movements'[Len(movements) + i]
          IN  /\ m.movement_type = "SALE"
              /\ m.product = items[t][i].product
              /\ m.quantity_change = 0 - items[t][i].quantity
              /\ m.quantity_after = m.quantity_before + m.quantity_change

\* C8: a successful complete_issuance lowers each referenced product's
\* quantity by the line items' quantities, appends exactly one SALE movement
\* per line item, clears is_in_issuance, leaves amount, amount_fulfilled and
\* the line items unchanged, and the status is FULFILLED if amount_fulfilled
\* equals amount and PARTIALLY_FULFILLED if 0 < amount_fulfilled < amount.
C8_CompleteDeductsAndRecords ==
    [][last'.op = "complete_issuance" /\ last'.err = "" =>
          \A t \in DOMAIN txns :
              complete_issuance(t) =>
                  /\ \A p \in Products : stock'[p] = stock[p] - Demand(items[t], p)
                  /\ SaleMovementsFor(t)
                  /\ ~txns'[t].is_in_issuance
                  /\ txns'[t].amount = txns[t].amount
                  /\ txns'[t].amount_fulfilled = txns[t].amount_fulfilled
                  /\ items' = items
                  /\ txns[t].amount_fulfilled = txns[t].amount
                         => txns'[t].status = FULFILLED
                  /\ (0 < txns[t].amount_fulfilled
                        /\ txns[t].amount_fulfilled < txns[t].amount)
                         => txns'[t].status = PARTIALLY_FULFILLED]_vars

\* A completion of two line items has succeeded on a partially fulfilled
\* transaction.
C8_Witness ==
    \E t \in DOMAIN txns :
        /\ last = Call("complete_issuance", t, "")
        /\ Len(items[t]) = 2
        /\ Len(movements) = 2
        /\ txns[t].status = PARTIALLY_FULFILLED

\* C9: cancel_issuance on a slot holder in PROCESSING or PARTIALLY_FULFILLED
\* removes its line items, zeroes amount_fulfilled, nulls total_cost and
\* total_pv, sets NOT_PROCESSED, clears is_in_issuance, appends the reason to
\* notes when one is given, and leaves stock and the movement log unchanged.
C9_CancelIssuanceReverts ==
    [][last'.op = "cancel_issuance" =>
          \A t \in DOMAIN txns, reason \in {"", "note"} :
              (/\ cancel_issuance(t, reason)
               /\ txns[t].is_in_issuance
               /\ txns[t].status \in {PROCESSING, PARTIALLY_FULFILLED}) =>
                  /\ last'.err = ""
                  /\ items'[t] = <<>>
                  /\ txns'[t].amount_fulfilled = 0
                  /\ txns'[t].total_cost = None
                  /\ txns'[t].total_pv = None
                  /\ txns'[t].status = NOT_PROCESSED
                  /\ ~txns'[t].is_in_issuance
                  /\ txns'[t].notes =
                         (IF reason = "" THEN txns[t].notes
                          ELSE Append(txns[t].notes, "Issuance Cancelled: " \o reason))
                  /\ UNCHANGED <<stock, movements>>]_vars

\* An issuance with a reason was cancelled after an earlier completion had
\* written movements: the row is back to NOT_PROCESSED with the reason noted.
C9_Witness ==
    \E t \in DOMAIN txns :
        /\ last = Call("cancel_issuance", t, "")
        /\ txns[t].status = NOT_PROCESSED
        /\ txns[t].notes # <<>>
        /\ txns[t].notes[Len(txns[t].notes)] = "Issuance Cancelled: note"
        /\ movements # <<>>

\* The last call was a scan of t that brought the line totals to exactly amount.
ScannedToExactAmount(t) ==
    /\ last = Call("scan_barcode", t, "")
    /\ SumLineTotal(items[t]) = txns[t].amount

\* The stock covers every unit in t's line items.
StockCoversItems(t) == \A p \in Products : Demand(items[t], p) <= stock[p]

\* C10 as stated: a scan that brings the line totals to exactly amount makes
\* the status FULFILLED with is_in_issuance still true, and a following
\* complete_issuance succeeds, decrements stock, releases the slot and leaves
\* the status FULFILLED.
C10_CompleteAfterExactScanSucceeds ==
    /\ [](\A t \in DOMAIN txns :
            ScannedToExactAmount(t) =>
                (txns[t].status = FULFILLED /\ txns[t].is_in_issuance))
    /\ [][last'.op = "complete_issuance" =>
            \A t \in DOMAIN txns :
                (ScannedToExactAmount(t) /\ complete_issuance(t)) =>
                    /\ last'.err = ""
                    /\ \A p \in Products : stock'[p] = stock[p] - Demand(items[t], p)
                    /\ ~txns'[t].is_in_issuance
                    /\ txns'[t].status = FULFILLED]_vars

\* C10 (amended): a scan that brings the line totals to exactly amount makes
\* the status FULFILLED with is_in_issuance still true; a following
\* complete_issuance succeeds exactly when the stock covers, per product, the
\* summed quantities of the line items, and then decrements stock, releases
\* the slot and leaves the status FULFILLED; otherwise it fails with
\* insufficient stock and changes nothing.
C10_CompleteAfterExactScan ==
    /\ [](\A t \in DOMAIN txns :
            ScannedToExactAmount(t) =>
                (txns[t].status = FULFILLED /\ txns[t].is_in_issuance))
    /\ [][last'.op = "complete_issuance" =>
            \A t \in DOMAIN txns :
                (ScannedToExactAmount(t) /\ complete_issuance(t)) =>
                    /\ last'.err = "" <=> StockCoversItems(t)
                    /\ last'.err = "" =>
                           /\ \A p \in Products :
                                  stock'[p] = stock[p] - Demand(items[t], p)
                           /\ ~txns'[t].is_in_issuance
                           /\ txns'[t].status = FULFILLED
                    /\ last'.err # "" =>
                           (last'.err = "InsufficientStock" /\ UNCHANGED store)]_vars

\* A completion succeeded on a transaction whose two scans added up to
\* exactly its amount.
C10_Witness ==
    \E t \in DOMAIN txns :
        /\ last = Call("complete_issuance", t, "")
        /\ Len(items[t]) = 2
        /\ SumLineTotal(items[t]) = txns[t].amount
        /\ txns[t].status = FULFILLED
        /\ ~txns[t].is_in_issuance
        /\ Len(movements) = 2

\* C3: at most one Transaction has is_in_issuance = true in every reachable
\* state, also when activate_issuance calls on distinct transactions
\* interleave between the slot check and the write of the flag.
C3_AtMostOneInIssuance ==
    Cardinality({t \in DOMAIN txns : txns[t].is_in_issuance}) <= 1

\* No task is at work on message m.
Quiet(m) == \A w \in Workers : pc[w].arg # m

\* C5: when two RawMessages whose text yields the same (tx_id, amount,
\* timestamp) have both been processed, one after the other or concurrently,
\* there is exactly one Transaction for them and both messages are linked to
\* it and marked processed.
C5_DuplicatesShareOneTransaction ==
    \A m1, m2 \in DOMAIN raw :
        (/\ m1 # m2
         /\ ParseMpesaSms(raw[m1]).confidence > ConfidenceThreshold
         /\ ParseMpesaSms(raw[m2]).confidence > ConfidenceThreshold
         /\ HashOf(raw[m1]) = HashOf(raw[m2])
         /\ {m1, m2} \subseteq handled
         /\ Quiet(m1) /\ Quiet(m2)) =>
            /\ Cardinality(WithHash(txns, HashOf(raw[m1]))) = 1
            /\ raw[m1].processed /\ raw[m2].processed
            /\ raw[m1].transaction # None
            /\ raw[m1].transaction = raw[m2].transaction

\* C11: once a scan has brought a transaction to FULFILLED, every later
\* cancel_issuance call on it fails and leaves its line items,
\* amount_fulfilled, totals and status unchanged.
C11_CancelAfterAutoFulfilledFails ==
    [][last'.op = "cancel_issuance" =>
          \A t \in DOMAIN txns :
              (/\ last'.t = t
               /\ txns[t].status = FULFILLED
               /\ items[t] # <<>>
               /\ SumLineTotal(items[t]) = txns[t].amount) =>
                  (last'.err # "" /\ UNCHANGED store)]_vars

\* The row activate_issuance is specified to store for t.
Activated(row) ==
    [row EXCEPT !.is_in_issuance = TRUE,
                !.status = IF row.status = NOT_PROCESSED THEN PROCESSING
                           ELSE row.status]

\* C12: activate_issuance(t) succeeds exactly when no other transaction
\* holds the slot and t's status is NOT_PROCESSED, PROCESSING or
\* PARTIALLY_FULFILLED; on success it sets is_in_issuance and promotes
\* NOT_PROCESSED to PROCESSING, leaving any other status and all money
\* fields unchanged; on failure no transaction is changed.
C12_ActivateSucceedsExactlyWhen ==
    [][last'.op = "activate_issuance" =>
          \A t \in DOMAIN txns :
              last'.t = t =>
                  /\ last'.err = "" <=>
                         /\ ExistingIssuance(txns, t) = {}
                         /\ txns[t].status \in
                                {NOT_PROCESSED, PROCESSING, PARTIALLY_FULFILLED}
                  /\ last'.err = "" =>
                         /\ txns' = [txns EXCEPT ![t] = Activated(txns[t])]
                         /\ UNCHANGED <<items, stock, movements>>
                  /\ last'.err # "" => UNCHANGED store]_vars

\* C13: scan_barcode, complete_issuance and cancel_issuance on a transaction
\* whose is_in_issuance is false, and complete_issuance on a slot holder
\* with no line items, each fail and change no transaction, line item,
\* product quantity or inventory movement; after the failed empty completion
\* the transaction still holds the slot.
C13_NotActivatedOrEmptyFails ==
    [][last'.op \in {"scan_barcode", "complete_issuance", "cancel_issuance"} =>
          \A t \in DOMAIN txns :
              last'.t = t =>
                  /\ ~txns[t].is_in_issuance =>
                         (last'.err = "NotInIssuance" /\ UNCHANGED store)
                  /\ (/\ last'.op = "complete_issuance"
                      /\ txns[t].is_in_issuance
                      /\ items[t] = <<>>) =>
                         /\ last'.err = "EmptyIssuance"
                         /\ UNCHANGED store
                         /\ txns'[t].is_in_issuance]_vars

\* A completion without line items was refused on a slot holder that had
\* been cancelled and activated again.
C13_Witness ==
    \E t \in DOMAIN txns :
        /\ last = Call("complete_issuance", t, "EmptyIssuance")
        /\ txns[t].is_in_issuance
        /\ items[t] = <<>>
        /\ txns[t].notes # <<>>

\* C14: two concurrent allocate_payment calls on the same Transaction, each
\* on its own copy of the row read before the other commits, serialize: every
\* call has the outcome the same call has on the row as stored when it
\* commits, so no allocation is lost and the allocations never exceed amount.
C14_ConcurrentAllocationsSerialize ==
    [][\A w \in Workers, amount \in AllocAmounts :
          allocate_payment_call(w, amount) =>
              LET t == pc[w].arg
                  o == AllocatePaymentOutcome(t, amount)
              IN  /\ (last'.err = "") = (o.err = "")
                  /\ txns'[t].amount_paid = o.txns[t].amount_paid
                  /\ txns'[t].status = o.txns[t].status]_vars

\* C15: process_raw_message invoked on a message whose processed flag is
\* already true ends at once, changes no RawMessage and no Transaction and
\* emits no notification; in any interleaving of deliveries a processed
\* message's row never changes again, a notification is emitted only with the
\* creation of a transaction, and no second transaction appears for a hash,
\* so repeated deliveries end as a single one does.
C15_ProcessedMessageIsNoOp ==
    /\ [][\A w \in Workers, m \in DOMAIN raw :
            (raw[m].processed /\ start_task(w, m)) =>
                /\ UNCHANGED <<raw, txns, items, pc>>
                /\ emitted' = <<>>
                /\ last' = Call("process_raw_message", m, "already_processed")]_vars
    /\ [][/\ \A m \in DOMAIN raw : raw[m].processed => raw'[m] = raw[m]
          /\ emitted' # <<>> => Len(txns') = Len(txns) + 1]_vars
    /\ [](\A t1, t2 \in DOMAIN txns :
            txns[t1].unique_hash = txns[t2].unique_hash => t1 = t2)

\* A processed and linked message was delivered again and the task stopped
\* at the processed flag.
C15_Witness ==
    \E m \in DOMAIN raw :
        /\ last = Call("process_raw_message", m, "already_processed")
        /\ raw[m].processed
        /\ raw[m].transaction # None
        /\ emitted = <<>>

\* C16: mark_as_fulfilled on a PROCESSING or PARTIALLY_FULFILLED transaction
\* whose amount_fulfilled is below amount stores status FULFILLED with
\* amount_fulfilled equal to amount and remaining_amount 0; on a
\* NOT_PROCESSED transaction it fails as an invalid transition and on a
\* locked one as locked, changing nothing.
C16_ManualFulfilmentForgivesShortfall ==
    [][last'.op = "mark_as_fulfilled" =>
          \A t \in DOMAIN txns :
              last'.t = t =>
                  /\ (/\ txns[t].status \in {PROCESSING, PARTIALLY_FULFILLED}
                      /\ txns[t].amount_fulfilled < txns[t].amount) =>
                         /\ last'.err = ""
                         /\ txns'[t].status = FULFILLED
                         /\ txns'[t].amount_fulfilled = txns'[t].amount
                         /\ RemainingAmount(txns'[t]) = 0
                  /\ txns[t].status = NOT_PROCESSED =>
                         (last'.err = "InvalidStatusTransition" /\ UNCHANGED store)
                  /\ IsLocked(txns[t]) =>
                         (last'.err = "TransactionLocked" /\ UNCHANGED store)]_vars

\* The quantity of product p that the SALE movements referencing transaction
\* t took out of stock.
RECURSIVE SoldQuantity(_, _, _)
SoldQuantity(movs, t, p) ==
    IF movs = <<>> THEN 0
    ELSE (IF /\ Head(movs).movement_type = "SALE"
             /\ Head(movs).reference = t
             /\ Head(movs).product = p
          THEN 0 - Head(movs).quantity_change ELSE 0)
         + SoldQuantity(Tail(movs), t, p)

\* The number of SALE movements referencing transaction t.
SaleCount(movs, t) ==
    Cardinality({i \in 1..Len(movs) :
                    movs[i].movement_type = "SALE" /\ movs[i].reference = t})

\* C17: across any sequence of activate_issuance, scan_barcode,
\* complete_issuance and cancel_issuance calls, re-activation of a
\* PARTIALLY_FULFILLED transaction included, each scanned line item's quantity
\* is deducted from stock exactly once and is recorded by exactly one SALE
\* movement: after a successful completion the SALE movements of the
\* transaction are as many as its line items and carry their quantities.
C17_EachLineItemDeductedOnce ==
    [][last'.op = "complete_issuance" /\ last'.err = "" =>
          \A t \in DOMAIN txns :
              last'.t = t =>
                  /\ SaleCount(movements', t) = Len(items'[t])
                  /\ \A p \in Products :
                        SoldQuantity(movements', t, p) = Demand(items'[t], p)]_vars

\* C18: for every transaction, the value consumed through allocate_payment
\* plus the value of its scanned line items never exceeds amount, however
\* allocations and scans are interleaved.  allocate_payment accumulates in
\* amount_paid, which nothing else writes until the transaction is FULFILLED
\* (save then lifts it to amount), so the sum is read on the transactions
\* that are not FULFILLED.
C18_AllocatedPlusScannedWithinAmount ==
    \A t \in DOMAIN txns :
        txns[t].status # FULFILLED =>
            txns[t].amount_paid + SumLineTotal(items[t]) <= txns[t].amount

\* C19: every line item that cancel_issuance deletes has never had its
\* quantity deducted from inventory: no cancellation removes line items (and
\* resets amount_fulfilled to 0) for goods that an earlier completed issuance
\* of the same transaction already took out of stock.
C19_CancelDeletesOnlyUndeductedItems ==
    [][last'.op = "cancel_issuance" /\ last'.err = "" =>
          \A t \in DOMAIN txns :
              (last'.t = t /\ items'[t] = <<>>) =>
                  \A i \in 1..Len(items[t]) :
                      SoldQuantity(movements, t, items[t][i].product) = 0]_vars

\* C20: save() on an existing FULFILLED or CANCELLED transaction, as the
\* update endpoint performs it, is rejected whenever it would change status,
\* amount, amount_fulfilled or amount_paid, and the stored record stays
\* unchanged.
C20_LockedRowRejectsChanges ==
    [][last'.op = "update" =>
          \A t \in DOMAIN txns :
              (last'.t = t /\ IsLocked(txns[t])) =>
                  \A status \in OrderStatus, amount_paid \in AllocAmounts :
                      (/\ update(t, status, amount_paid)
                       /\ \/ status # txns[t].status
                          \/ amount_paid # txns[t].amount_paid) =>
                          (last'.err # "" /\ UNCHANGED store)]_vars

\* C21: in every reachable state a transaction with is_in_issuance = TRUE has
\* status PROCESSING, PARTIALLY_FULFILLED or FULFILLED; no interleaving of
\* OrderStatusService and FulfillmentService calls leaves a CANCELLED
\* transaction holding the issuance slot.
C21_HolderStatusIsActive ==
    \A t \in DOMAIN txns :
        txns[t].is_in_issuance =>
            txns[t].status \in {PROCESSING, PARTIALLY_FULFILLED, FULFILLED}

\* C22: the issuance slot can never become permanently stuck: in every
\* reachable state where some transaction holds the slot, whatever its status
\* and whatever operations preceded, cancel_issuance on the holder succeeds
\* and leaves no transaction with is_in_issuance = TRUE.
C22_CancelIssuanceFreesSlot ==
    [][last'.op = "cancel_issuance" =>
          \A t \in DOMAIN txns :
              (last'.t = t /\ txns[t].is_in_issuance) =>
                  /\ last'.err = ""
                  /\ \A u \in DOMAIN txns : ~txns'[u].is_in_issuance]_vars

\* C23: if at completion a line item's product has less stock than the
\* item's quantity (the items before it in the loop counted), complete_issuance
\* fails as a whole: no product quantity changes, no InventoryMovement is
\* written, also for the line items processed before the failing one, and
\* the transaction still holds the slot with its status unchanged.
C23_CompleteFailsAsAWhole ==
    [][last'.op = "complete_issuance" =>
          \A t \in DOMAIN txns :
              (/\ last'.t = t
               /\ txns[t].is_in_issuance
               /\ ~StockCoversItems(t)) =>
                  /\ last'.err = "InsufficientStock"
                  /\ UNCHANGED store
                  /\ txns'[t].is_in_issuance
                  /\ txns'[t].status = txns[t].status]_vars

\* A completion failed on the second line item of a holder, the first one
\* being in stock.
C23_Witness ==
    \E t \in DOMAIN txns :
        /\ last = Call("complete_issuance", t, "InsufficientStock")
        /\ txns[t].is_in_issuance
        /\ Len(items[t]) = 2
        /\ ~StockShort(stock, items[t][1])
        /\ ~StockCoversItems(t)

\* C24: no Product.quantity ever becomes negative through any sequence of
\* scans and completions, also when several line items of one issuance
\* reference the same product and each passed the scan-time stock check
\* although their summed quantity exceeds the stock.
C24_StockNeverNegative ==
    \A p \in Products : stock[p] >= 0

\* A completion was attempted on two line items of the same product, each
\* within the stock at scan time and together beyond it.
C24_Witness ==
    \E t \in DOMAIN txns :
        /\ last.op = "complete_issuance"
        /\ last.t = t
        /\ Len(items[t]) = 2
        /\ items[t][1].product = items[t][2].product
        /\ \A i \in 1..2 : items[t][i].quantity <= stock[items[t][i].product]
        /\ Demand(items[t], items[t][1].product) > stock[items[t][1].product]

\* C25: after every operation, for every transaction, the legacy mirror
\* fields agree with the canonical ones: amount_paid equals amount_fulfilled
\* and amount_expected equals amount.
C25_LegacyMirrorsAgree ==
    \A t \in DOMAIN txns :
        /\ txns[t].amount_paid = txns[t].amount_fulfilled
        /\ txns[t].amount_expected = Some(txns[t].amount)

\* The statuses that follow s in the legal-transition table, at any distance.
Later(s) ==
    LET one == ValidTransitions(s)
        two == one \cup UNION {ValidTransitions(x) : x \in one}
    IN  two \cup UNION {ValidTransitions(x) : x \in two}

\* Status a precedes status b in the legal-transition table.
Precedes(a, b) == b \in Later(a)

\* C26: a transaction's status moves backward only through cancel_issuance
\* on a slot holder in PROCESSING or PARTIALLY_FULFILLED, which sets it to
\* NOT_PROCESSED; no other operation changes a status to one that precedes it
\* in the legal-transition table, and cancel_issuance never changes the
\* status of a FULFILLED or CANCELLED transaction.
C26_BackwardOnlyByCancelIssuance ==
    [][\A t \in DOMAIN txns :
          /\ Precedes(txns'[t].status, txns[t].status) =>
                /\ last' = Call("cancel_issuance", t, "")
                /\ txns[t].is_in_issuance
                /\ txns[t].status \in {PROCESSING, PARTIALLY_FULFILLED}
                /\ txns'[t].status = NOT_PROCESSED
          /\ (/\ last' = Call("cancel_issuance", t, "")
              /\ txns[t].status \in {PROCESSING, PARTIALLY_FULFILLED}) =>
                txns'[t].status = NOT_PROCESSED
          /\ (last'.op = "cancel_issuance" /\ IsLocked(txns[t])) =>
                txns'[t].status = txns[t].status]_vars

\* An issuance was cancelled on a transaction that an earlier completion had
\* left PARTIALLY_FULFILLED, and the status is NOT_PROCESSED again.
C26_Witness ==
    \E t \in DOMAIN txns :
        /\ last = Call("cancel_issuance", t, "")
        /\ txns[t].status = NOT_PROCESSED
        /\ SaleCount(movements, t) > 0

\* Two requests on the same transaction have both returned.
BothReturned(v, w) ==
    /\ v # w
    /\ pc[v] # Idle /\ ~InFlight(v)
    /\ pc[w] # Idle /\ ~InFlight(w)
    /\ pc[v].arg = pc[w].arg

FulfillmentOps ==
    {"activate_issuance", "scan_barcode", "complete_issuance", "cancel_issuance"}

\* The totals of transaction t are those of its current line items.
TotalsMatchLineItems(t) ==
    /\ txns[t].amount_fulfilled = SumLineTotal(items[t])
    /\ txns[t].total_cost =
          IF items[t] = <<>> THEN None ELSE Some(SumLineCost(items[t]))
    /\ txns[t].total_pv =
          IF items[t] = <<>> THEN None ELSE Some(SumLinePv(items[t]))

\* C28: after every fulfillment operation, a transaction's amount_fulfilled
\* equals the sum of line_total over its current line items, and total_cost
\* and total_pv equal the sums of line_cost and line_pv (or are null when it
\* has no line items).
C28_TotalsFollowLineItems ==
    last.op \in FulfillmentOps =>
        \A t \in DOMAIN txns : TotalsMatchLineItems(t)

\* The operations that commit an update of a Transaction.
UpdatingOps ==
    FulfillmentOps \cup
    {"mark_as_processing", "allocate_payment", "mark_as_fulfilled", "cancel_transaction"}

\* C29: every operation that commits a creation or an update of a
\* Transaction (message processing, manual payment entry, mark_as_processing,
\* allocate_payment, mark_as_fulfilled, cancel_transaction, activate_issuance,
\* scan_barcode, complete_issuance, cancel_issuance) attempts to emit a
\* transaction.created or transaction.updated notification for it.
C29_EveryCommitNotifies ==
    [][(last'.op \in UpdatingOps /\ last'.err = "") =>
          \E i \in DOMAIN emitted' :
              emitted'[i] = Notification("transaction.updated", last'.t)]_vars

\* C30: a transaction.created or transaction.updated notification is emitted
\* only after the database transaction that made the change has committed,
\* never for a change that is still uncommitted or is later rolled back, and
\* an exception raised while emitting neither rolls back the change nor fails
\* the calling operation.
C30_NotifyOnlyAfterCommit ==
    /\ [][emitted' # <<>> =>
            \A w \in Workers : pc'[w] # pc[w] => instance'[w] = None]_vars
    /\ [][\A w \in Workers :
            (pc[w].step = "inserted" /\ pc'[w].step = "broadcast") =>
                instance'[w] = instance[w]]_vars
    /\ [][\A w \in Workers :
            (pc[w].step = "broadcast" /\ pc'[w] # pc[w]) =>
                (last'.err = "" /\ Len(txns') = Len(txns) + 1)]_vars

====
